---- MODULE Spec2Model ----
(***************************************************************************)
(* frictionless_ckan_mapper: conversion of dataset and resource metadata   *)
(* records between the CKAN form and the Frictionless form.                *)
(*                                                                         *)
(* A JSON-compatible Python value is a record of one fixed shape, so that  *)
(* any two values can be compared:                                         *)
(*   t  the type tag: "null", "bool", "num", "str", "list" or "dict"       *)
(*   b  the payload of a bool, n of a num,                                 *)
(*   s  the payload of a str: the sequence of its characters,              *)
(*   l  the payload of a list: the sequence of its elements,               *)
(*   d  the payload of a dict: a function from keys to values.             *)
(* A character is a TLA+ string.  A word such as "licenses" stands for one *)
(* letter of the alphabet: the code compares, trims and parses strings but *)
(* never looks inside a run of letters.  A dict key is the character       *)
(* sequence of the Python string.                                          *)
(***************************************************************************)
EXTENDS Integers, Sequences, FiniteSets, TLC

EmptyDict == [k \in {} |-> 0]

Null    == [t |-> "null", b |-> FALSE, n |-> 0, s |-> <<>>, l |-> <<>>, d |-> EmptyDict]
Bool(x) == [t |-> "bool", b |-> x,     n |-> 0, s |-> <<>>, l |-> <<>>, d |-> EmptyDict]
Num(x)  == [t |-> "num",  b |-> FALSE, n |-> x, s |-> <<>>, l |-> <<>>, d |-> EmptyDict]
Str(x)  == [t |-> "str",  b |-> FALSE, n |-> 0, s |-> x,    l |-> <<>>, d |-> EmptyDict]
List(x) == [t |-> "list", b |-> FALSE, n |-> 0, s |-> <<>>, l |-> x,    d |-> EmptyDict]
Dict(x) == [t |-> "dict", b |-> FALSE, n |-> 0, s |-> <<>>, l |-> <<>>, d |-> x]

\* A one-letter string, and the dict key of that name.
W(w) == Str(<<w>>)
K(w) == <<w>>

IsNull(v) == v.t = "null"
IsStr(v)  == v.t = "str"
IsList(v) == v.t = "list"
IsDict(v) == v.t = "dict"

\* Python truthiness (bool(v)).
Truthy(v) ==
    CASE v.t = "null" -> FALSE
      [] v.t = "bool" -> v.b
      [] v.t = "num"  -> v.n # 0
      [] v.t = "str"  -> v.s # <<>>
      [] v.t = "list" -> v.l # <<>>
      [] v.t = "dict" -> DOMAIN v.d # {}

\* dict operations on the payload function
Has(d, k)    == k \in DOMAIN d
Put(d, k, v) == [x \in (DOMAIN d) \cup {k} |-> IF x = k THEN v ELSE d[x]]
Del(d, k)    == [x \in (DOMAIN d) \ {k} |-> d[x]]
\* d.get(k): None when the key is absent
Get(d, k)    == IF Has(d, k) THEN d[k] ELSE Null

(***************************************************************************)
(* json.loads on a character sequence.                                     *)
(***************************************************************************)
Whitespace == {" "}
Digits     == {"0", "1", "2", "3"}
DigitVal(c) == CASE c = "0" -> 0 [] c = "1" -> 1 [] c = "2" -> 2 [] c = "3" -> 3

\* result of a parsing step: ok, the value, the position after it
PFail      == [ok |-> FALSE, v |-> Null, i |-> 0]
POk(v, i)  == [ok |-> TRUE, v |-> v, i |-> i]

RECURSIVE SkipWs(_, _)
SkipWs(s, i) ==
    IF i <= Len(s) /\ s[i] \in Whitespace THEN SkipWs(s, i + 1) ELSE i

\* the characters of a string literal, from position i up to its closing quote
RECURSIVE ScanString(_, _, _)
ScanString(s, i, acc) ==
    IF i > Len(s) THEN PFail
    ELSE IF s[i] = "\"" THEN POk(Str(acc), i + 1)
    ELSE ScanString(s, i + 1, Append(acc, s[i]))

RECURSIVE ScanDigits(_, _, _)
ScanDigits(s, i, acc) ==
    IF i <= Len(s) /\ s[i] \in Digits
    THEN ScanDigits(s, i + 1, 10 * acc + DigitVal(s[i]))
    ELSE POk(Num(acc), i)

\* a number: "0" alone or a non-zero digit followed by digits
ScanNumber(s, i) ==
    IF s[i] = "0" THEN POk(Num(0), i + 1) ELSE ScanDigits(s, i, 0)

RECURSIVE ParseValue(_, _)
RECURSIVE ParseItems(_, _, _)
RECURSIVE ParseMembers(_, _, _)

\* the elements of an array after "[" or after a ","
ParseItems(s, i, acc) ==
    LET r == ParseValue(s, i) IN
    IF ~r.ok THEN PFail
    ELSE LET j == SkipWs(s, r.i) IN
         IF j > Len(s) THEN PFail
         ELSE IF s[j] = "]" THEN POk(List(Append(acc, r.v)), j + 1)
         ELSE IF s[j] = "," THEN ParseItems(s, j + 1, Append(acc, r.v))
         ELSE PFail

\* the members of an object after "{" or after a ","; a repeated key keeps
\* the last value
ParseMembers(s, i, acc) ==
    LET j == SkipWs(s, i) IN
    IF j > Len(s) \/ s[j] # "\"" THEN PFail
    ELSE LET k == ScanString(s, j + 1, <<>>) IN
         IF ~k.ok THEN PFail
         ELSE LET c == SkipWs(s, k.i) IN
              IF c > Len(s) \/ s[c] # ":" THEN PFail
              ELSE LET r == ParseValue(s, c + 1) IN
                   IF ~r.ok THEN PFail
                   ELSE LET e == SkipWs(s, r.i) IN
                        IF e > Len(s) THEN PFail
                        ELSE IF s[e] = "}"
                             THEN POk(Dict(Put(acc, k.v.s, r.v)), e + 1)
                        ELSE IF s[e] = ","
                             THEN ParseMembers(s, e + 1, Put(acc, k.v.s, r.v))
                        ELSE PFail

ParseValue(s, i) ==
    LET j == SkipWs(s, i) IN
    IF j > Len(s) THEN PFail
    ELSE CASE s[j] = "\""  -> ScanString(s, j + 1, <<>>)
           [] s[j] = "{"   -> LET e == SkipWs(s, j + 1) IN
                              IF e <= Len(s) /\ s[e] = "}"
                              THEN POk(Dict(EmptyDict), e + 1)
                              ELSE ParseMembers(s, j + 1, EmptyDict)
           [] s[j] = "["   -> LET e == SkipWs(s, j + 1) IN
                              IF e <= Len(s) /\ s[e] = "]"
                              THEN POk(List(<<>>), e + 1)
                              ELSE ParseItems(s, j + 1, <<>>)
           [] s[j] \in Digits -> ScanNumber(s, j)
           [] s[j] = "null"  -> POk(Null, j + 1)
           [] s[j] = "true"  -> POk(Bool(TRUE), j + 1)
           [] s[j] = "false" -> POk(Bool(FALSE), j + 1)
           [] OTHER -> PFail

\* json.loads(v): the outcome is a value, a JSONDecodeError (malformed text
\* or text after the value) or a TypeError (v is not a string).
Loads(v) ==
    IF ~IsStr(v) THEN [ok |-> FALSE, exc |-> "TypeError", v |-> Null]
    ELSE LET r == ParseValue(v.s, 1) IN
         IF r.ok /\ SkipWs(v.s, r.i) > Len(v.s)
         THEN [ok |-> TRUE, exc |-> "", v |-> r.v]
         ELSE [ok |-> FALSE, exc |-> "JSONDecodeError", v |-> Null]

\* str.strip()
RECURSIVE RStrip(_)
RStrip(s) ==
    IF s # <<>> /\ s[Len(s)] \in Whitespace THEN RStrip(SubSeq(s, 1, Len(s) - 1)) ELSE s
Strip(s) == LET i == SkipWs(s, 1) IN RStrip(SubSeq(s, i, Len(s)))

\* str.startswith(c) for a one-character prefix
StartsWith(s, c) == s # <<>> /\ s[1] = c

(***************************************************************************)
(* Outcomes of Python operations the converters rely on.                   *)
(***************************************************************************)
\* iteration (for x in v): the elements of a list, the characters of a str,
\* the keys of a dict; None, numbers and booleans are not iterable.  The keys
\* of a dict are visited in insertion order, which the dict payload does not
\* keep: a dict of two or more keys is outside the model ("Unmodelled").
RECURSIVE Chars(_)
Chars(s) == IF s = <<>> THEN <<>> ELSE <<W(Head(s))>> \o Chars(Tail(s))

Iter(v) ==
    CASE v.t = "list" -> [ok |-> TRUE, exc |-> "", l |-> v.l]
      [] v.t = "str"  -> [ok |-> TRUE, exc |-> "", l |-> Chars(v.s)]
      [] v.t = "dict" ->
            IF Cardinality(DOMAIN v.d) <= 1
            THEN [ok |-> TRUE, exc |-> "",
                  l |-> IF DOMAIN v.d = {} THEN <<>>
                        ELSE <<Str(CHOOSE k \in DOMAIN v.d : TRUE)>>]
            ELSE [ok |-> FALSE, exc |-> "Unmodelled", l |-> <<>>]
      [] OTHER -> [ok |-> FALSE, exc |-> "TypeError", l |-> <<>>]

\* dict(v): a shallow copy of a dict; an empty list or str gives {}; a str
\* has elements of length 1 (ValueError); None, numbers and booleans are not
\* iterable (TypeError); a non-empty list must hold pairs, a case outside the
\* model unless its first element already fails.
PyDict(v) ==
    CASE v.t = "dict" -> [ok |-> TRUE, exc |-> "", d |-> v.d]
      [] v.t \in {"null", "num", "bool"} ->
            [ok |-> FALSE, exc |-> "TypeError", d |-> EmptyDict]
      [] v.t = "str" ->
            IF v.s = <<>> THEN [ok |-> TRUE, exc |-> "", d |-> EmptyDict]
            ELSE [ok |-> FALSE, exc |-> "ValueError", d |-> EmptyDict]
      [] v.t = "list" ->
            IF v.l = <<>> THEN [ok |-> TRUE, exc |-> "", d |-> EmptyDict]
            ELSE IF v.l[1].t \in {"null", "num", "bool"}
                 THEN [ok |-> FALSE, exc |-> "TypeError", d |-> EmptyDict]
            ELSE IF \/ v.l[1].t = "str"  /\ Len(v.l[1].s) # 2
                    \/ v.l[1].t = "list" /\ Len(v.l[1].l) # 2
                    \/ v.l[1].t = "dict" /\ Cardinality(DOMAIN v.l[1].d) # 2
                 THEN [ok |-> FALSE, exc |-> "ValueError", d |-> EmptyDict]
            ELSE [ok |-> FALSE, exc |-> "Unmodelled", d |-> EmptyDict]

\* The result of a call: ok (it returned) or the exception raised, the value
\* returned, and the argument as the caller sees it after the call.
Returned(v, arg)  == [ok |-> TRUE,  exc |-> "", v |-> v,    arg |-> arg]
Raised(e, arg)    == [ok |-> FALSE, exc |-> e,  v |-> Null, arg |-> arg]

\* One statement after another: F applied to the value of v, which is
\* computed once, as a Python statement sees the state its predecessor left.
Apply(F(_), v) == CHOOSE r \in {F(x) : x \in {v}} : TRUE

(***************************************************************************)
(* ckan_to_frictionless.resource                                           *)
(***************************************************************************)
resource_mapping ==
    << <<K("size"), K("bytes")>>, <<K("mimetype"), K("mediatype")>>,
       <<K("url"), K("path")>> >>

\* a removal list that forgets `state`
resource_keys_to_remove_short ==
    <<K("package_id"), K("position"), K("datastore_active")>>

resource_keys_to_remove ==
    <<K("package_id"), K("position"), K("datastore_active"), K("state")>>

Range(seq) == {seq[i] : i \in DOMAIN seq}

\* for key in keys: if key in d: del d[key]
RemoveKeys(d, keys) == [k \in (DOMAIN d) \ Range(keys) |-> d[k]]

\* an unjsonify loop that stores the trimmed text when parsing fails
UnjsonifyTrimmed(value) ==
    IF IsStr(value)
    THEN LET stripped == Strip(value.s) IN
         IF StartsWith(stripped, "{") \/ StartsWith(stripped, "[")
         THEN LET r == Loads(Str(stripped)) IN
              IF r.ok THEN r.v ELSE Str(stripped)
         ELSE value
    ELSE value

\* the value the unjsonify loop leaves under a key
Unjsonify(value) ==
    IF IsStr(value)
    THEN LET stripped == Strip(value.s) IN
         IF StartsWith(stripped, "{") \/ StartsWith(stripped, "[")
         THEN LET r == Loads(Str(stripped)) IN
              IF r.ok THEN r.v ELSE value
         ELSE value
    ELSE value

UnjsonifyAll(d) == [k \in DOMAIN d |-> Unjsonify(d[k])]

\* a remap loop that copies the value and forgets `del d[key]`
RECURSIVE RemapKeepOld(_, _, _)
RemapKeepOld(d, mapping, i) ==
    IF i > Len(mapping) THEN d
    ELSE IF Has(d, mapping[i][1])
         THEN RemapKeepOld(Put(d, mapping[i][2], d[mapping[i][1]]), mapping, i + 1)
         ELSE RemapKeepOld(d, mapping, i + 1)

\* for key, value in mapping.items(): if key in d: d[value] = d[key]; del d[key]
RECURSIVE Remap(_, _, _)
Remap(d, mapping, i) ==
    IF i > Len(mapping) THEN d
    ELSE LET key == mapping[i][1]
             value == mapping[i][2] IN
         IF Has(d, key)
         THEN Remap(Del(Put(d, value, d[key]), key), mapping, i + 1)
         ELSE Remap(d, mapping, i + 1)

\* a final loop that deletes nothing
StripNullsNone(d) == d

\* for key in list(d.keys()): if d[key] is None: del d[key]
StripNulls(d) == [k \in {x \in DOMAIN d : ~IsNull(d[x])} |-> d[k]]

resource(ckandict) ==
    LET c == PyDict(ckandict) IN
    IF ~c.ok THEN Raised(c.exc, ckandict)
    ELSE Returned(
           Dict(StripNulls(Remap(UnjsonifyAll(
               RemoveKeys(c.d, resource_keys_to_remove)), resource_mapping, 1))),
           ckandict)

(***************************************************************************)
(* ckan_to_frictionless.dataset                                            *)
(*                                                                         *)
(* The function body is a sequence of steps over a state st:               *)
(*   ok, exc  whether an exception has been raised, and which;             *)
(*   d        outdict;                                                     *)
(*   c        ckandict, the argument object as it is now;                  *)
(*   alias    which object outdict['licenses'] is: 0 a list or value of    *)
(*            its own, -1 the object ckandict['licenses'], i > 0 the       *)
(*            object ckandict['extras'][i]['value'];                       *)
(*   shared   used by package() only (see below).                          *)
(***************************************************************************)
dataset_keys_to_remove == <<K("state")>>

dataset_mapping ==
    << <<K("notes"), K("description")>>, <<K("url"), K("homepage")>> >>

Raise(st, e) == [st EXCEPT !.ok = FALSE, !.exc = e]

\* an expansion that stores every value as it is, without json.loads
RECURSIVE ExpandExtrasRaw(_, _, _)
ExpandExtrasRaw(st, items, i) ==
    IF ~st.ok \/ i > Len(items) THEN st
    ELSE IF ~IsDict(items[i]) THEN Raise(st, "TypeError")
    ELSE IF ~Has(items[i].d, K("key")) \/ ~Has(items[i].d, K("value"))
         THEN Raise(st, "KeyError")
    ELSE IF ~IsStr(items[i].d[K("key")]) THEN Raise(st, "TypeError")
    ELSE ExpandExtrasRaw(
           [st EXCEPT !.d = Put(@, items[i].d[K("key")].s, items[i].d[K("value")]),
                      !.alias = IF items[i].d[K("key")].s = K("licenses") THEN i ELSE @],
           items, i + 1)

\* lines 93-102: the extras entries become top-level keys
RECURSIVE ExpandExtras(_, _, _)
ExpandExtras(st, items, i) ==
    IF ~st.ok \/ i > Len(items) THEN st
    ELSE LET extra == items[i] IN
         IF ~IsDict(extra) THEN Raise(st, "TypeError")
         ELSE IF ~Has(extra.d, K("key")) \/ ~Has(extra.d, K("value"))
              THEN Raise(st, "KeyError")
         ELSE LET key   == extra.d[K("key")]
                  value == extra.d[K("value")]
                  r     == Loads(value) IN
              IF key.t \in {"list", "dict"} THEN Raise(st, "TypeError")
              ELSE IF ~IsStr(key) THEN Raise(st, "Unmodelled")
              ELSE ExpandExtras(
                     [st EXCEPT !.d = Put(@, key.s, IF r.ok THEN r.v ELSE value),
                                !.alias = IF key.s = K("licenses")
                                          THEN (IF r.ok THEN 0 ELSE i)
                                          ELSE @],
                     items, i + 1)

StepExtras(st) ==
    IF ~st.ok \/ ~Has(st.c, K("extras")) THEN st
    ELSE LET it == Iter(st.c[K("extras")]) IN
         IF ~it.ok THEN Raise(st, it.exc)
         ELSE LET e == ExpandExtras(st, it.l, 1) IN
              IF ~e.ok THEN e ELSE [e EXCEPT !.d = Del(@, K("extras"))]

\* lines 105-108: a mapped key takes its value from ckandict
RECURSIVE MapKeys(_, _, _)
MapKeys(st, mapping, i) ==
    IF ~st.ok \/ i > Len(mapping) THEN st
    ELSE LET key == mapping[i][1]
             value == mapping[i][2] IN
         IF Has(st.c, key)
         THEN MapKeys([st EXCEPT !.d = Del(Put(@, value, st.c[key]), key)],
                             mapping, i + 1)
         ELSE MapKeys(st, mapping, i + 1)

\* a comprehension that collects the names last tag first
RECURSIVE TagNamesReversed(_, _, _)
TagNamesReversed(tags, i, acc) ==
    IF i > Len(tags) THEN [ok |-> TRUE, exc |-> "", l |-> acc]
    ELSE IF ~IsDict(tags[i]) THEN [ok |-> FALSE, exc |-> "TypeError", l |-> <<>>]
    ELSE IF ~Has(tags[i].d, K("name")) THEN [ok |-> FALSE, exc |-> "KeyError", l |-> <<>>]
    ELSE TagNamesReversed(tags, i + 1, <<tags[i].d[K("name")]>> \o acc)

\* lines 111-113: [tag['name'] for tag in ckandict['tags']]
RECURSIVE TagNames(_, _, _)
TagNames(tags, i, acc) ==
    IF i > Len(tags) THEN [ok |-> TRUE, exc |-> "", l |-> acc]
    ELSE IF ~IsDict(tags[i]) THEN [ok |-> FALSE, exc |-> "TypeError", l |-> <<>>]
    ELSE IF ~Has(tags[i].d, K("name")) THEN [ok |-> FALSE, exc |-> "KeyError", l |-> <<>>]
    ELSE TagNames(tags, i + 1, Append(acc, tags[i].d[K("name")]))

StepTags(st) ==
    IF ~st.ok \/ ~Has(st.c, K("tags")) THEN st
    ELSE LET it == Iter(st.c[K("tags")]) IN
         IF ~it.ok THEN Raise(st, it.exc)
         ELSE LET n == TagNames(it.l, 1, <<>>) IN
              IF ~n.ok THEN Raise(st, n.exc)
              ELSE [st EXCEPT !.d = Del(Put(@, K("keywords"), List(n.l)), K("tags"))]

\* a synthesized contributor that never takes the email
ContribNoEmail(d, who, email, role) ==
    Dict(Put(Put(EmptyDict, K("title"), d[who]), K("role"), W(role)))

\* lines 125-132 and 133-140: one synthesized contributor
Contrib(d, who, email, role) ==
    LET base == Put(Put(EmptyDict, K("title"), d[who]), K("role"), W(role)) IN
    IF Has(d, email) THEN Dict(Put(base, K("email"), d[email])) ELSE Dict(base)

\* lines 122-143
StepContributors(st) ==
    IF ~st.ok THEN st
    ELSE LET d == st.d
             build == /\ ~(Has(d, K("contributors")) /\ Truthy(d[K("contributors")]))
                      /\ (Has(d, K("author")) \/ Has(d, K("maintainer")))
             a == IF Has(d, K("author")) /\ Truthy(d[K("author")])
                  THEN <<Contrib(d, K("author"), K("author_email"), "author")>> ELSE <<>>
             m == IF Has(d, K("maintainer")) /\ Truthy(d[K("maintainer")])
                  THEN <<Contrib(d, K("maintainer"), K("maintainer_email"), "maintainer")>> ELSE <<>>
             d2 == IF build THEN Put(d, K("contributors"), List(a \o m)) ELSE d IN
         [st EXCEPT !.d = RemoveKeys(d2, <<K("author"), K("author_email"),
                                           K("maintainer"), K("maintainer_email")>>)]

\* lines 146-148: [resource(res) for res in outdict['resources']]
RECURSIVE Resources(_, _, _)
Resources(rs, i, acc) ==
    IF i > Len(rs) THEN [ok |-> TRUE, exc |-> "", l |-> acc]
    ELSE LET r == resource(rs[i]) IN
         IF ~r.ok THEN [ok |-> FALSE, exc |-> r.exc, l |-> <<>>]
         ELSE Resources(rs, i + 1, Append(acc, r.v))

StepResources(st) ==
    IF ~st.ok \/ ~Has(st.d, K("resources")) THEN st
    ELSE LET it == Iter(st.d[K("resources")]) IN
         IF ~it.ok THEN Raise(st, it.exc)
         ELSE LET r == Resources(it.l, 1, <<>>) IN
              IF ~r.ok THEN Raise(st, r.exc)
              ELSE [st EXCEPT !.d = Put(@, K("resources"), List(r.l))]

\* a license synthesis that forgets license_url
StepLicenseNoPath(st) ==
    IF ~st.ok THEN st
    ELSE LET d == st.d
             any == Has(d, K("license_id")) \/ Has(d, K("license_title"))
                        \/ Has(d, K("license_url"))
             l1 == IF Has(d, K("license_id"))
                   THEN Put(EmptyDict, K("name"), d[K("license_id")]) ELSE EmptyDict
             l2 == IF Has(d, K("license_title"))
                   THEN Put(l1, K("title"), d[K("license_title")]) ELSE l1
             d2 == IF any THEN Put(d, K("licenses"), List(<<Dict(l2)>>)) ELSE d IN
         [st EXCEPT !.d = RemoveKeys(d2, <<K("license_id"), K("license_title"), K("license_url")>>),
                    !.alias = IF any THEN 0 ELSE @]

\* lines 157-169
StepLicense(st) ==
    IF ~st.ok THEN st
    ELSE LET d == st.d
             any == Has(d, K("license_id")) \/ Has(d, K("license_title"))
                        \/ Has(d, K("license_url"))
             l0 == EmptyDict
             l1 == IF Has(d, K("license_id")) THEN Put(l0, K("name"), d[K("license_id")]) ELSE l0
             l2 == IF Has(d, K("license_title")) THEN Put(l1, K("title"), d[K("license_title")]) ELSE l1
             l3 == IF Has(d, K("license_url")) THEN Put(l2, K("path"), d[K("license_url")]) ELSE l2
             d2 == IF any THEN Put(d, K("licenses"), List(<<Dict(l3)>>)) ELSE d IN
         [st EXCEPT !.d = RemoveKeys(d2, <<K("license_id"), K("license_title"), K("license_url")>>),
                    !.alias = IF any THEN 0 ELSE @]

\* lines 187-193: the normalized copy of one listed license.  On a str or a
\* list `'name' in license` is a containment test, and license['name'] then
\* fails; None, numbers and booleans do not support `in`.
LicenseFields == <<"name", "title", "path">>

LicenseOut(license) ==
    CASE license.t = "dict" ->
            [ok |-> TRUE, exc |-> "",
             v |-> Dict([k \in {K(f) : f \in Range(LicenseFields)} \cap DOMAIN license.d
                            |-> license.d[k]])]
      [] license.t = "str" ->
            IF \E f \in Range(LicenseFields) : f \in Range(license.s)
            THEN [ok |-> FALSE, exc |-> "TypeError", v |-> Null]
            ELSE [ok |-> TRUE, exc |-> "", v |-> Dict(EmptyDict)]
      [] license.t = "list" ->
            IF \E f \in Range(LicenseFields) : W(f) \in Range(license.l)
            THEN [ok |-> FALSE, exc |-> "TypeError", v |-> Null]
            ELSE [ok |-> TRUE, exc |-> "", v |-> Dict(EmptyDict)]
      [] OTHER -> [ok |-> FALSE, exc |-> "TypeError", v |-> Null]

\* outdict['licenses'].append(x), seen through every name of the list object
AppendLicense(st, x) ==
    LET new == List(Append(st.d[K("licenses")].l, x)) IN
    [st EXCEPT !.d = Put(@, K("licenses"), new),
               !.c = IF st.alias = -1 THEN Put(@, K("licenses"), new)
                     ELSE IF st.alias > 0
                     THEN Put(@, K("extras"),
                              List([@[K("extras")].l EXCEPT ![st.alias] =
                                        Dict(Put(@.d, K("value"), new))]))
                     ELSE @]

\* lines 186-195
RECURSIVE AppendLicenses(_, _, _)
AppendLicenses(st, licenses_list, i) ==
    IF ~st.ok \/ i > Len(licenses_list) THEN st
    ELSE LET lo == LicenseOut(licenses_list[i]) IN
         IF ~lo.ok THEN Raise(st, lo.exc)
         ELSE IF ~Has(st.d, K("licenses")) THEN Raise(st, "KeyError")
         ELSE IF ~IsList(st.d[K("licenses")]) THEN Raise(st, "TypeError")
         ELSE IF lo.v \in Range(st.d[K("licenses")].l)
              THEN AppendLicenses(st, licenses_list, i + 1)
         ELSE AppendLicenses(AppendLicense(st, lo.v), licenses_list, i + 1)

\* lines 175-184: the first extras item one of whose values is 'licenses'
FirstLicensesItem(items) ==
    LET hit == {i \in DOMAIN items :
                   \E k \in DOMAIN items[i].d : items[i].d[k] = W("licenses")} IN
    IF hit = {} THEN 0 ELSE CHOOSE i \in hit : \A j \in hit : i <= j

\* lines 173-195
StepExtraLicenses(st) ==
    IF ~st.ok \/ ~Truthy(Get(st.c, K("extras"))) THEN st
    ELSE LET items == Iter(st.c[K("extras")]).l
             j == FirstLicensesItem(items) IN
         IF j = 0 THEN st
         ELSE LET r == Loads(Get(items[j].d, K("value"))) IN
              IF ~r.ok THEN Raise(st, r.exc)
              ELSE IF ~IsDict(r.v) THEN Raise(st, "AttributeError")
              ELSE LET it == Iter(Get(r.v.d, K("licenses"))) IN
                   IF ~it.ok THEN Raise(st, it.exc)
                   ELSE AppendLicenses(st, it.l, 1)

\* lines 197-202
StepFinish(st) ==
    IF ~st.ok THEN st
    ELSE [st EXCEPT !.d = StripNulls(RemoveKeys(@, dataset_keys_to_remove))]

StepMapKeys(st) == MapKeys(st, dataset_mapping, 1)

\* line 204, or the exception that ended the call
Outcome(st) ==
    IF st.ok THEN Returned(Dict(st.d), Dict(st.c)) ELSE Raised(st.exc, Dict(st.c))

dataset(ckandict) ==
    LET c == PyDict(ckandict) IN
    IF ~c.ok THEN Raised(c.exc, ckandict)
    ELSE IF ~IsDict(ckandict) THEN Raised("AttributeError", ckandict)
    ELSE Apply(Outcome, Apply(StepFinish, Apply(StepExtraLicenses, Apply(StepLicense,
         Apply(StepResources, Apply(StepContributors, Apply(StepTags, Apply(StepMapKeys,
         Apply(StepExtras,
               [ok |-> TRUE, exc |-> "", d |-> c.d, c |-> ckandict.d,
                alias |-> -1, shared |-> FALSE])))))))))

(***************************************************************************)
(* slugify.slugify(text).lower(), the external slug function: letters are  *)
(* lowered, every run of other characters becomes one "-", and no "-" is   *)
(* left at either end.  Text that is not a str is a TypeError.             *)
(***************************************************************************)
Lower(c) == CASE c = "A" -> "a" [] c = "B" -> "b" [] OTHER -> c
Separators == {" ", "!", "-", "_", "{", "}", "[", "]", ":", ",", "\""}

RECURSIVE SlugChars(_, _)
SlugChars(s, acc) ==
    IF s = <<>> THEN acc
    ELSE IF Head(s) \in Separators
         THEN SlugChars(Tail(s), IF acc = <<>> \/ acc[Len(acc)] = "-"
                                 THEN acc ELSE Append(acc, "-"))
    ELSE SlugChars(Tail(s), Append(acc, Lower(Head(s))))

Slugify(s) ==
    LET r == SlugChars(s, <<>>) IN
    IF r # <<>> /\ r[Len(r)] = "-" THEN SubSeq(r, 1, Len(r) - 1) ELSE r

(***************************************************************************)
(* frictionless_to_ckan.FrictionlessToCKAN                                 *)
(*                                                                         *)
(* package() is a sequence of steps over a state st with d = outdict,      *)
(* c = fddict as it is now, and shared = "outdict['extras'] and            *)
(* fddict['extras'] are one list object".                                  *)
(***************************************************************************)
package_mapping ==
    << <<K("description"), K("notes")>>, <<K("homepage"), K("url")>> >>

ckan_package_keys ==
    {K("author"), K("author_email"), K("groups"), K("license_id"),
     K("maintainer"), K("maintainer_email"), K("name"), K("notes"),
     K("owner_org"), K("private"), K("relationships_as_object"),
     K("relationships_as_subject"), K("resources"), K("state"), K("tags"),
     K("title"), K("type"), K("url"), K("version")}

f2c_resource_mapping ==
    << <<K("bytes"), K("size")>>, <<K("mediatype"), K("mimetype")>>,
       <<K("path"), K("url")>> >>

\* FrictionlessToCKAN.resource: the body is `pass`, the call returns None
f2c_resource(fddict) == Returned(Null, fddict)

\* v[0][key] where v is truthy: the first element of a list, the first
\* character of a str; a dict has no key 0; anything else is not subscriptable
FirstField(v, key) ==
    CASE v.t = "list" ->
            IF IsDict(v.l[1])
            THEN IF Has(v.l[1].d, key)
                 THEN [ok |-> TRUE, exc |-> "", v |-> v.l[1].d[key]]
                 ELSE [ok |-> FALSE, exc |-> "KeyError", v |-> Null]
            ELSE [ok |-> FALSE, exc |-> "TypeError", v |-> Null]
      [] v.t = "dict" -> [ok |-> FALSE, exc |-> "KeyError", v |-> Null]
      [] OTHER -> [ok |-> FALSE, exc |-> "TypeError", v |-> Null]

\* if not outdict.get('extras'): outdict['extras'] = []
\* outdict['extras'].append({name: value})
ExtrasAppend(st, name, value) ==
    LET fresh == ~Truthy(Get(st.d, K("extras")))
        cur   == IF fresh THEN List(<<>>) ELSE st.d[K("extras")] IN
    IF ~IsList(cur)
    THEN Raise(st, "AttributeError")
    ELSE LET new == List(Append(cur.l, Dict(name :> value))) IN
         [st EXCEPT !.d = Put(@, K("extras"), new),
                    !.shared = @ /\ ~fresh,
                    !.c = IF st.shared /\ ~fresh THEN Put(@, K("extras"), new) ELSE @]

\* outdict[target] = v[0][key] when v[0].get(key) is truthy
CopyIfTruthy(d, v, key, target) ==
    IF Truthy(Get(v.l[1].d, key)) THEN Put(d, target, v.l[1].d[key]) ELSE d

\* lines 78-86
StepLicenses(st) ==
    IF ~st.ok \/ ~Truthy(Get(st.d, K("licenses"))) THEN st
    ELSE LET licenses == st.d[K("licenses")]
             id == FirstField(licenses, K("type")) IN
         IF ~id.ok THEN Raise(st, id.exc)
         ELSE LET d1 == CopyIfTruthy(Put(st.d, K("license_id"), id.v),
                                     licenses, K("title"), K("license_title"))
                  s1 == [st EXCEPT !.d = d1]
                  s2 == IF Len(licenses.l) > 1
                        THEN ExtrasAppend(s1, K("licenses"), licenses) ELSE s1 IN
              IF ~s2.ok THEN s2 ELSE [s2 EXCEPT !.d = Del(@, K("licenses"))]

\* lines 88-98
StepSources(st) ==
    IF ~st.ok \/ ~Truthy(Get(st.d, K("sources"))) THEN st
    ELSE LET sources == st.d[K("sources")]
             title == FirstField(sources, K("title")) IN
         IF ~title.ok THEN Raise(st, title.exc)
         ELSE LET d1 == CopyIfTruthy(
                          CopyIfTruthy(Put(st.d, K("author"), title.v),
                                       sources, K("email"), K("author_email")),
                          sources, K("path"), K("url"))
                  s1 == [st EXCEPT !.d = d1]
                  s2 == IF Len(sources.l) > 1
                        THEN ExtrasAppend(s1, K("sources"), sources) ELSE s1 IN
              IF ~s2.ok THEN s2 ELSE [s2 EXCEPT !.d = Del(@, K("sources"))]

\* lines 100-120: a single contributor with a field that has no CKAN
\* equivalent is archived only inside `if not outdict.get('extras')`
StepContribs(st) ==
    IF ~st.ok \/ ~Truthy(Get(st.d, K("contributors"))) THEN st
    ELSE LET contributors == st.d[K("contributors")]
             title == FirstField(contributors, K("title")) IN
         IF ~title.ok THEN Raise(st, title.exc)
         ELSE LET d1 == CopyIfTruthy(Put(st.d, K("maintainer"), title.v),
                                     contributors, K("email"), K("maintainer_email"))
                  s1 == [st EXCEPT !.d = d1]
                  s2 == IF Len(contributors.l) > 1
                        THEN ExtrasAppend(s1, K("contributors"), contributors)
                        ELSE IF /\ \E key \in DOMAIN contributors.l[1].d :
                                      key \in {K("path"), K("organisation"), K("role")}
                                /\ ~Truthy(Get(s1.d, K("extras")))
                             THEN ExtrasAppend(s1, K("contributors"), contributors)
                             ELSE s1 IN
              IF ~s2.ok THEN s2 ELSE [s2 EXCEPT !.d = Del(@, K("contributors"))]

\* lines 123-126
RECURSIVE Tags(_, _, _)
Tags(keywords, i, acc) ==
    IF i > Len(keywords) THEN [ok |-> TRUE, exc |-> "", l |-> acc]
    ELSE IF ~IsStr(keywords[i]) THEN [ok |-> FALSE, exc |-> "TypeError", l |-> <<>>]
    ELSE Tags(keywords, i + 1,
              Append(acc, Dict(K("name") :> Str(Slugify(keywords[i].s)))))

\* lines 122-127
StepKeywords(st) ==
    IF ~st.ok \/ ~Truthy(Get(st.d, K("keywords"))) THEN st
    ELSE LET it == Iter(st.d[K("keywords")]) IN
         IF ~it.ok THEN Raise(st, it.exc)
         ELSE LET t == Tags(it.l, 1, <<>>) IN
              IF ~t.ok THEN Raise(st, t.exc)
              ELSE [st EXCEPT !.d = Del(Put(@, K("tags"), List(t.l)), K("keywords"))]

StepMapPackageKeys(st) == MapKeys(st, package_mapping, 1)

package(fddict) ==
    LET c == PyDict(fddict) IN
    IF ~c.ok THEN Raised(c.exc, fddict)
    ELSE IF ~IsDict(fddict) THEN Returned(Dict(c.d), fddict)
    ELSE Apply(Outcome, Apply(StepKeywords, Apply(StepContribs, Apply(StepSources,
         Apply(StepLicenses, Apply(StepMapPackageKeys,
               [ok |-> TRUE, exc |-> "", d |-> c.d, c |-> c.d, alias |-> 0,
                shared |-> Has(c.d, K("extras"))]))))))

(***************************************************************************)
(* The records handed to the converters.                                   *)
(***************************************************************************)
MaxCalls  == 4   \* conversions in one chain
MaxExtras == 2   \* entries of a CKAN dataset's extras
MaxSeq    == 2   \* elements of a package's licenses, sources, contributors
MaxPad    == 1   \* blanks around a JSON text

SeqsUpTo(S, n) == UNION {[1..k -> S] : k \in 0..n}

\* every merge of one option per part
Merge3(A, B, C) == {a @@ b @@ c : a \in A, b \in B, c \in C}

Q == "\""
RECURSIVE Blanks(_)
Blanks(n) == IF n = 0 THEN <<>> ELSE <<" ">> \o Blanks(n - 1)
Padded(s, n) == Str(Blanks(n) \o s \o Blanks(n))

\* {"a": 1}   [1, "b"]   {"a"   (the last one is not JSON)
TxtObj    == <<"{", Q, "a", Q, ":", " ", "1", "}">>
TxtArr    == <<"[", "1", ",", " ", Q, "b", Q, "]">>
TxtBroken == <<"{", Q, "a", Q>>
\* {"licenses": [{"name": "cc"}, {"name": "by", "title": "T", "x": 1}]}
TxtLicensesDict ==
    <<"{", Q, "licenses", Q, ":", " ", "[",
        "{", Q, "name", Q, ":", " ", Q, "cc", Q, "}", ",", " ",
        "{", Q, "name", Q, ":", " ", Q, "by", Q, ",", " ",
             Q, "title", Q, ":", " ", Q, "T", Q, ",", " ", Q, "x", Q, ":", " ", "1", "}",
      "]", "}">>
\* [{"name": "by"}]
TxtLicensesList == <<"[", "{", Q, "name", Q, ":", " ", Q, "by", Q, "}", "]">>

ResourceValues ==
    {Null, W("x")} \cup {Padded(TxtObj, n) : n \in 0..MaxPad}
                   \cup {Padded(TxtArr, MaxPad), Padded(TxtBroken, MaxPad)}

CkanResources ==
    LET removed == {EmptyDict}
                   \cup {K("package_id") :> v : v \in ResourceValues}
                   \cup {(K("state") :> v) @@ (K("position") :> Num(2))
                          @@ (K("datastore_active") :> Bool(TRUE)) : v \in ResourceValues}
        renamed == {EmptyDict}
                   \cup {K("size") :> v : v \in ResourceValues}
                   \cup {K("url") :> v : v \in ResourceValues}
                   \cup {(K("mimetype") :> v) @@ (K("mediatype") :> w) :
                             v \in ResourceValues, w \in {Null, W("y")}}
        other   == {EmptyDict} \cup {K("schema") :> v : v \in ResourceValues}
    IN {Dict(r) : r \in Merge3(removed, renamed, other)}

Extra(k, v) == Dict((K("key") :> k) @@ (K("value") :> v))

ExtraEntries ==
    {Extra(W("custom"), W("hello")), Extra(W("custom"), Str(<<"1", "2">>)),
     Extra(W("custom"), W("null")),
     Extra(W("custom"), Str(TxtArr)),
     Extra(W("licenses"), Str(TxtLicensesDict)),
     Extra(W("licenses"), Str(TxtLicensesList)),
     Extra(W("licenses"), W("oops")),
     Dict((K("key") :> W("note")) @@ (K("value") :> Str(TxtLicensesDict))
            @@ (K("label") :> W("licenses")))}

CkanDatasets ==
    LET extras  == {EmptyDict}
                   \cup {K("extras") :> List(e) : e \in SeqsUpTo(ExtraEntries, MaxExtras)}
        license == {EmptyDict, K("license_id") :> W("cc"),
                    (K("license_id") :> W("cc")) @@ (K("license_title") :> Null),
                    (K("license_id") :> W("cc")) @@ (K("license_title") :> W("CC"))
                        @@ (K("license_url") :> W("u")),
                    (K("license_title") :> W("T")) @@ (K("license_url") :> W("u")),
                    K("licenses") :> List(<<Dict(K("name") :> W("pd"))>>)}
        other   == {EmptyDict,
                    (K("notes") :> W("n")) @@ (K("state") :> W("active"))
                        @@ (K("id") :> Null),
                    (K("author") :> W("A")) @@ (K("author_email") :> W("a@x"))
                        @@ (K("maintainer") :> Null),
                    (K("author") :> W("A")) @@ (K("maintainer") :> W("M"))
                        @@ (K("maintainer_email") :> W("m@x")),
                    (K("author") :> Str(<<>>)) @@ (K("author_email") :> W("a@x")),
                    (K("contributors") :> List(<<Dict(K("title") :> W("C"))>>))
                        @@ (K("author") :> W("A")),
                    (K("contributors") :> List(<<>>)) @@ (K("maintainer") :> W("M")),
                    K("tags") :> List(<<Dict((K("name") :> W("eco")) @@ (K("id") :> W("t1"))),
                                        Dict(K("name") :> W("wb"))>>),
                    (K("tags") :> List(<<>>)) @@ (K("keywords") :> List(<<W("old")>>)),
                    K("resources") :> List(<<Dict((K("url") :> W("u"))
                                                   @@ (K("state") :> W("active"))
                                                   @@ (K("schema") :> Padded(TxtObj, MaxPad)))>>)}
    IN {Dict(r) : r \in Merge3(extras, license, other)}

Licenses ==
    {Dict(K("type") :> W("cc")), Dict(K("name") :> W("cc")),
     Dict((K("type") :> W("by")) @@ (K("title") :> W("T"))),
     Dict((K("name") :> W("by")) @@ (K("title") :> W("T")))}
People ==
    {Dict(K("title") :> W("A")),
     Dict((K("title") :> W("B")) @@ (K("email") :> W("b@x")) @@ (K("role") :> W("author")))}

Packages ==
    LET extras == {EmptyDict, K("extras") :> List(<<>>),
                   K("extras") :> List(<<Extra(W("custom"), W("hello"))>>)}
        seqs   == {EmptyDict}
                  \cup {K("licenses") :> List(l) : l \in SeqsUpTo(Licenses, MaxSeq)}
                  \cup {K("sources") :> List(l) : l \in SeqsUpTo(People, MaxSeq) \ {<<>>}}
                  \cup {K("contributors") :> List(l) : l \in SeqsUpTo(People, MaxSeq) \ {<<>>}}
        other  == {EmptyDict,
                   (K("description") :> W("d")) @@ (K("title") :> Null),
                   K("custom") :> W("hello"),
                   (K("newlist") :> List(<<Num(1), W("b")>>)) @@ (K("name") :> W("gdp")),
                   K("keywords") :> List(<<Str(<<"A", " ", "!", "b">>), W("eco")>>),
                   K("keywords") :> List(<<>>)}
    IN {Dict(r) : r \in Merge3(extras, seqs, other)}

PackageResources ==
    {Dict(r) : r \in {(K("path") :> W("u")),
                      (K("bytes") :> Num(1)) @@ (K("mediatype") :> W("csv"))
                          @@ (K("format") :> W("CSV"))}}

(***************************************************************************)
(* The caller: a record in one of the four forms is converted, and the     *)
(* record returned is converted back, up to MaxCalls conversions.          *)
(*   rec     the record to convert next (the last value returned)          *)
(*   form    its form                                                      *)
(*   op      the last converter called                                     *)
(*   before  the argument of that call as it was when the call was made    *)
(*   after   the same argument object when the call ended                  *)
(*   status  "ok" or the exception the call raised                         *)
(***************************************************************************)
VARIABLES rec, form, op, before, after, status, calls
vars == <<rec, form, op, before, after, status, calls>>

Init ==
    /\ \/ form = "ckan_resource" /\ rec \in CkanResources
       \/ form = "ckan_dataset" /\ rec \in CkanDatasets
       \/ form = "package" /\ rec \in Packages
       \/ form = "package_resource" /\ rec \in PackageResources
    /\ op = "none"
    /\ before = Null
    /\ after = Null
    /\ status = "ok"
    /\ calls = 0

Call(name, r, to) ==
    /\ calls < MaxCalls
    /\ op' = name
    /\ before' = rec
    /\ after' = r.arg
    /\ status' = IF r.ok THEN "ok" ELSE r.exc
    /\ rec' = r.v
    /\ form' = IF r.ok THEN to ELSE "none"
    /\ calls' = calls + 1

CkanToFrictionlessResource ==
    form = "ckan_resource" /\ Call("resource", resource(rec), "package_resource")

CkanToFrictionlessDataset ==
    form = "ckan_dataset" /\ Call("dataset", dataset(rec), "package")

FrictionlessToCkanPackage ==
    form = "package" /\ Call("package", package(rec), "ckan_dataset")

FrictionlessToCkanResource ==
    form = "package_resource" /\ Call("f2c_resource", f2c_resource(rec), "ckan_resource")

Next ==
    \/ CkanToFrictionlessResource
    \/ CkanToFrictionlessDataset
    \/ FrictionlessToCkanPackage
    \/ FrictionlessToCkanResource

Spec == Init /\ [][Next]_vars

\* no call leaves the cases the model covers
Modelled == status # "Unmodelled"
(***************************************************************************)
(* Properties                                                              *)
(***************************************************************************)
Returns(name) == op = name /\ status = "ok"

NoNullKey(v) == \A k \in DOMAIN v.d : ~IsNull(v.d[k])
HasNullKey(v) == \E k \in DOMAIN v.d : IsNull(v.d[k])

\* C1, as claimed: the record returned by resource, dataset or package has
\* no top-level key whose value is null.
C1_NoNullInAnyOutput ==
    (Returns("resource") \/ Returns("dataset") \/ Returns("package"))
        => NoNullKey(rec)

\* C1, amended: the record returned by ckan_to_frictionless.resource or
\* ckan_to_frictionless.dataset has no top-level key whose value is null.
C1_NoNullFromCkan ==
    (Returns("resource") \/ Returns("dataset")) => NoNullKey(rec)

\* a CKAN record with a null-valued key has been converted
C1_Witness ==
    (Returns("resource") \/ Returns("dataset")) /\ HasNullKey(before)

\* C2: a dataset record D returned by package is a fixed point of
\* dataset-then-package: package(dataset(D)) returns a record equal to D.
C2_RoundTripStable ==
    Returns("package") =>
        LET fd == dataset(rec) IN
        /\ fd.ok
        /\ LET ckan == package(fd.v) IN ckan.ok /\ ckan.v = rec

\* the keys dataset() reads, writes or deletes by name
DatasetKnownKeys ==
    {K("extras"), K("notes"), K("description"), K("url"), K("homepage"),
     K("tags"), K("keywords"), K("contributors"), K("author"),
     K("author_email"), K("maintainer"), K("maintainer_email"),
     K("resources"), K("license_id"), K("license_title"), K("license_url"),
     K("licenses"), K("state")}

WellFormedExtras(v) ==
    Has(v.d, K("extras")) =>
        /\ IsList(v.d[K("extras")])
        /\ \A e \in Range(v.d[K("extras")].l) :
              /\ IsDict(e) /\ Has(e.d, K("key")) /\ Has(e.d, K("value"))
              /\ IsStr(e.d[K("key")])

\* C3: dataset returns a record whatever the text of the extras values is,
\* and an extras value that does not parse is kept as the original string
\* under its key.
C3_MalformedJsonNeverAborts ==
    (op = "dataset" /\ IsDict(before) /\ WellFormedExtras(before)) =>
        /\ status = "ok"
        /\ Has(before.d, K("extras")) =>
             LET es == before.d[K("extras")].l IN
             \A i \in DOMAIN es :
                LET key == es[i].d[K("key")].s IN
                (/\ key \notin DatasetKnownKeys
                 /\ \A j \in DOMAIN es : j > i => es[j].d[K("key")].s # key
                 /\ IsStr(es[i].d[K("value")])
                 /\ ~Loads(es[i].d[K("value")]).ok)
                    => Has(rec.d, key) /\ rec.d[key] = es[i].d[K("value")]

\* C4: after a call of any converter its argument, nested sequences
\* included, is equal to what it was before the call.
C4_ArgumentUnchanged ==
    op \in {"resource", "dataset", "package"} => after = before

\* JSON text of v: a string that json.loads turns into v
IsJsonOf(text, v) == LET r == Loads(text) IN r.ok /\ r.v = v

\* C5: every extras entry of the record returned by package has exactly the
\* fields key and value, and an overflowing licenses, sources or contributors
\* sequence is archived as {key: <name>, value: <JSON text of the sequence>}.
C5_ExtrasEntriesKeyValue ==
    Returns("package") =>
        /\ Has(rec.d, K("extras")) =>
             /\ IsList(rec.d[K("extras")])
             /\ \A e \in Range(rec.d[K("extras")].l) :
                   IsDict(e) /\ DOMAIN e.d = {K("key"), K("value")}
        /\ \A name \in {K("licenses"), K("sources"), K("contributors")} :
             (/\ Has(before.d, name) /\ IsList(before.d[name])
              /\ Len(before.d[name].l) > 1)
                => /\ Has(rec.d, K("extras"))
                   /\ \E e \in Range(rec.d[K("extras")].l) :
                         /\ Get(e.d, K("key")) = Str(name)
                         /\ IsJsonOf(Get(e.d, K("value")), before.d[name])

\* the keys package() renames or collapses
PackageProcessedKeys ==
    {K("description"), K("homepage"), K("licenses"), K("sources"),
     K("contributors"), K("keywords"), K("extras")}

\* C6: package leaves no key outside the allowlist at the top level (extras
\* apart); such a key of the input is one extras entry {key, value}, the
\* value being the JSON text of a sequence or mapping and a scalar unchanged;
\* allowlisted keys stay at the top level.
C6_Sweep ==
    Returns("package") =>
        /\ DOMAIN rec.d \subseteq ckan_package_keys \cup {K("extras")}
        /\ \A k \in DOMAIN before.d \ PackageProcessedKeys :
             IF k \in ckan_package_keys
             THEN Has(rec.d, k)
             ELSE /\ Has(rec.d, K("extras")) /\ IsList(rec.d[K("extras")])
                  /\ \E e \in Range(rec.d[K("extras")].l) :
                        /\ IsDict(e) /\ DOMAIN e.d = {K("key"), K("value")}
                        /\ e.d[K("key")] = Str(k)
                        /\ IF before.d[k].t \in {"list", "dict"}
                           THEN IsJsonOf(e.d[K("value")], before.d[k])
                           ELSE e.d[K("value")] = before.d[k]

\* a dataset whose only field is extras with one entry, of an unknown key
\* and a string value
OneScalarExtra(v) ==
    /\ IsDict(v) /\ DOMAIN v.d = {K("extras")} /\ IsList(v.d[K("extras")])
    /\ Len(v.d[K("extras")].l) = 1
    /\ LET e == v.d[K("extras")].l[1] IN
       /\ IsDict(e) /\ DOMAIN e.d = {K("key"), K("value")}
       /\ IsStr(e.d[K("key")]) /\ IsStr(e.d[K("value")])
       /\ e.d[K("key")].s \notin DatasetKnownKeys \cup ckan_package_keys
                                  \cup PackageProcessedKeys

\* C7: dataset turns {extras: [{key: k, value: v}]}, v a string, into the
\* record {k: v}, and package turns that record into one whose extras holds
\* the entry {key: k, value: v}.
C7_ExtrasRoundTrip ==
    (op = "dataset" /\ OneScalarExtra(before)) =>
        LET e == before.d[K("extras")].l[1] IN
        /\ status = "ok"
        /\ rec = Dict(e.d[K("key")].s :> e.d[K("value")])
        /\ LET back == package(rec) IN
           /\ back.ok
           /\ IsList(Get(back.v.d, K("extras")))
           /\ e \in Range(Get(back.v.d, K("extras")).l)

\* the key a resource key is stored under after the mapping
Renamed(mapping, k) ==
    IF \E i \in DOMAIN mapping : mapping[i][1] = k
    THEN mapping[CHOOSE i \in DOMAIN mapping : mapping[i][1] = k][2]
    ELSE k

\* C8: FrictionlessToCKAN.resource returns the record with bytes, mediatype
\* and path renamed to size, mimetype and url, values kept, and every other
\* key passed through.
C8_ResourceRenameInverse ==
    op = "f2c_resource" =>
        /\ status = "ok" /\ IsDict(rec)
        /\ DOMAIN rec.d = {Renamed(f2c_resource_mapping, k) : k \in DOMAIN before.d}
        /\ \A k \in DOMAIN before.d :
              rec.d[Renamed(f2c_resource_mapping, k)] = before.d[k]

BookkeepingKeys ==
    {K("package_id"), K("position"), K("datastore_active"), K("state")}

LooksLikeJson(v) ==
    IsStr(v) /\ (StartsWith(Strip(v.s), "{") \/ StartsWith(Strip(v.s), "["))

\* what C9 says the output holds for an input value v under key k
UnjsonifiedAt(k, v) ==
    LET to == Renamed(resource_mapping, k) IN
    IF LooksLikeJson(v)
    THEN LET r == Loads(Str(Strip(v.s))) IN
         Has(rec.d, to) /\ rec.d[to] = (IF r.ok THEN r.v ELSE v)
    ELSE ~IsNull(v) => Has(rec.d, to) /\ rec.d[to] = v

\* C9, as claimed: for every key of a resource that is not removed, the
\* output of resource holds, under the key or its renamed key, the parsed
\* structure when the trimmed value starts with { or [ and is valid JSON,
\* the original untrimmed string when it is not valid JSON, and every other
\* non-null value unchanged.
C9_Unjsonified ==
    Returns("resource") =>
        \A k \in DOMAIN before.d \ BookkeepingKeys : UnjsonifiedAt(k, before.d[k])

\* a key that the mapping overwrites: bytes, mediatype or path in a record
\* that also has size, mimetype or url
Overwritten(d, k) ==
    \E i \in DOMAIN resource_mapping :
        resource_mapping[i][2] = k /\ Has(d, resource_mapping[i][1])

\* C9, amended: the same for every key that is not removed and is not
\* bytes, mediatype or path in a record that also has size, mimetype or url
\* respectively.
C9_UnjsonifiedUnlessOverwritten ==
    Returns("resource") =>
        \A k \in DOMAIN before.d \ BookkeepingKeys :
            ~Overwritten(before.d, k) => UnjsonifiedAt(k, before.d[k])

\* a resource with a padded JSON text that parses and one that does not
C9_Witness ==
    /\ Returns("resource")
    /\ \E k \in DOMAIN before.d \ BookkeepingKeys :
          /\ LooksLikeJson(before.d[k]) /\ before.d[k].s[1] = " "
          /\ Loads(before.d[k]).ok
          /\ IsDict(rec.d[Renamed(resource_mapping, k)])
    /\ \E k \in DOMAIN before.d \ BookkeepingKeys :
          /\ LooksLikeJson(before.d[k]) /\ before.d[k].s[1] = " "
          /\ ~Loads(before.d[k]).ok
          /\ rec.d[Renamed(resource_mapping, k)] = before.d[k]

\* C10: the output of resource has none of package_id, position,
\* datastore_active, state, and is the output for the record without them.
C10_BookkeepingRemoved ==
    Returns("resource") =>
        /\ DOMAIN rec.d \cap BookkeepingKeys = {}
        /\ LET without == Dict([k \in DOMAIN before.d \ BookkeepingKeys |-> before.d[k]])
               r == resource(without) IN
           r.ok /\ r.v = rec

\* a resource with a bookkeeping key whose value is JSON text
C10_Witness ==
    /\ Returns("resource")
    /\ \E k \in DOMAIN before.d \cap BookkeepingKeys :
          LooksLikeJson(before.d[k]) /\ Loads(before.d[k]).ok

\* the keys of the resource rename table, sources and targets
RenameTableKeys ==
    {resource_mapping[i][j] : i \in DOMAIN resource_mapping, j \in {1, 2}}

\* size, mimetype, url with a non-null value are absent from the output and
\* their unjsonified value is under bytes, mediatype, path
RenamedKeysMoved ==
    \A i \in DOMAIN resource_mapping :
        LET from == resource_mapping[i][1]
            to   == resource_mapping[i][2] IN
        (Has(before.d, from) /\ ~IsNull(before.d[from]))
            => /\ ~Has(rec.d, from)
               /\ Has(rec.d, to)
               /\ rec.d[to] = Unjsonify(before.d[from])

\* C11, as claimed: resource returns a record in which each of size,
\* mimetype, url present with a non-null value is absent and its unjsonified
\* value is under bytes, mediatype, path, and every key outside the rename
\* table and the removal list is in the output under its own name.
C11_RenameAndPassThrough ==
    (Returns("resource") /\ IsDict(before)) =>
        /\ RenamedKeysMoved
        /\ \A k \in DOMAIN before.d \ (RenameTableKeys \cup BookkeepingKeys) :
              Has(rec.d, k) /\ rec.d[k] = Unjsonify(before.d[k])

\* C11, amended: the same, where a key outside the rename table and the
\* removal list is in the output under its own name when its value is not
\* null (a null-valued key is dropped by the last loop).
C11_RenameAndPassThroughNonNull ==
    (Returns("resource") /\ IsDict(before)) =>
        /\ RenamedKeysMoved
        /\ \A k \in DOMAIN before.d \ (RenameTableKeys \cup BookkeepingKeys) :
              IF IsNull(before.d[k]) THEN ~Has(rec.d, k)
              ELSE Has(rec.d, k) /\ rec.d[k] = Unjsonify(before.d[k])

\* a resource with size or url holding JSON text, now a structure under
\* bytes or path, and a key of its own name kept
C11_Witness ==
    /\ Returns("resource") /\ IsDict(before)
    /\ \E i \in DOMAIN resource_mapping :
          /\ Has(before.d, resource_mapping[i][1])
          /\ LooksLikeJson(before.d[resource_mapping[i][1]])
          /\ Has(rec.d, resource_mapping[i][2])
          /\ rec.d[resource_mapping[i][2]].t \in {"dict", "list"}
    /\ \E k \in DOMAIN before.d \ (RenameTableKeys \cup BookkeepingKeys) :
          Has(rec.d, k)

\* a dataset record with an extras sequence of {key, value} pairs
HasExtrasPairs(v) ==
    IsDict(v) /\ Has(v.d, K("extras")) /\ WellFormedExtras(v)

\* the JSON parse of an extras value when it parses, the value otherwise
Expanded(value) == LET r == Loads(value) IN IF r.ok THEN r.v ELSE value

\* C12, as claimed: for a dataset with an extras sequence of {key, value}
\* pairs, the output of dataset has no extras key and, for each pair whose key
\* dataset does not treat by name, a top-level field named by the key whose
\* value is the JSON parse of the value, or the value itself when it does
\* not parse or is not a string.
C12_ExtrasExpanded ==
    (Returns("dataset") /\ HasExtrasPairs(before)) =>
        /\ ~Has(rec.d, K("extras"))
        /\ LET es == before.d[K("extras")].l IN
           \A i \in DOMAIN es :
              LET key == es[i].d[K("key")].s IN
              key \notin DatasetKnownKeys
                 => Has(rec.d, key) /\ rec.d[key] = Expanded(es[i].d[K("value")])

\* C12, amended: the same for the last pair of each key, and the field is
\* absent when the parse of that pair's value (or the value itself) is null.
C12_LastExtrasExpandedNonNull ==
    (Returns("dataset") /\ HasExtrasPairs(before)) =>
        /\ ~Has(rec.d, K("extras"))
        /\ LET es == before.d[K("extras")].l IN
           \A i \in DOMAIN es :
              LET key == es[i].d[K("key")].s
                  x   == Expanded(es[i].d[K("value")]) IN
              (/\ key \notin DatasetKnownKeys
               /\ \A j \in DOMAIN es : j > i => es[j].d[K("key")].s # key)
                 => IF IsNull(x) THEN ~Has(rec.d, key)
                    ELSE Has(rec.d, key) /\ rec.d[key] = x

\* a dataset whose extras hold a value that parses to a structure and a
\* value that does not parse, both now top-level fields
C12_Witness ==
    /\ Returns("dataset") /\ HasExtrasPairs(before)
    /\ LET es == before.d[K("extras")].l IN
       /\ \E i \in DOMAIN es :
             /\ es[i].d[K("key")].s \notin DatasetKnownKeys
             /\ Loads(es[i].d[K("value")]).ok
             /\ Get(rec.d, es[i].d[K("key")].s).t \in {"list", "dict"}
       /\ \E i \in DOMAIN es :
             /\ es[i].d[K("key")].s \notin DatasetKnownKeys
             /\ ~Loads(es[i].d[K("value")]).ok
             /\ Get(rec.d, es[i].d[K("key")].s) = es[i].d[K("value")]

ContributorSourceKeys ==
    {K("author"), K("author_email"), K("maintainer"), K("maintainer_email")}

\* {title, role, email if present} for the author or the maintainer of d
Person(d, who, email, role) ==
    IF Has(d, email)
    THEN Dict((K("title") :> d[who]) @@ (K("role") :> W(role)) @@ (K("email") :> d[email]))
    ELSE Dict((K("title") :> d[who]) @@ (K("role") :> W(role)))

\* the author entry, then the maintainer entry, each when non-empty
Synthesized(d) ==
    (IF Has(d, K("author")) /\ Truthy(d[K("author")])
     THEN <<Person(d, K("author"), K("author_email"), "author")>> ELSE <<>>)
    \o (IF Has(d, K("maintainer")) /\ Truthy(d[K("maintainer")])
        THEN <<Person(d, K("maintainer"), K("maintainer_email"), "maintainer")>>
        ELSE <<>>)

\* C13: a non-empty contributors field is returned unchanged by dataset;
\* otherwise, when author or maintainer is present, contributors is the
\* author entry {title, role, email if present} when author is non-empty
\* followed by the maintainer entry when maintainer is non-empty; author,
\* author_email, maintainer and maintainer_email are never in the output.
C13_ContributorSynthesis ==
    (Returns("dataset") /\ IsDict(before)) =>
        /\ DOMAIN rec.d \cap ContributorSourceKeys = {}
        /\ IF Has(before.d, K("contributors")) /\ Truthy(before.d[K("contributors")])
           THEN Has(rec.d, K("contributors"))
                /\ rec.d[K("contributors")] = before.d[K("contributors")]
           ELSE (Has(before.d, K("author")) \/ Has(before.d, K("maintainer")))
                => /\ Has(rec.d, K("contributors"))
                   /\ rec.d[K("contributors")] = List(Synthesized(before.d))

\* a dataset with an author and a maintainer with an email, now two
\* contributors
C13_Witness ==
    /\ Returns("dataset") /\ IsDict(before)
    /\ ~Has(before.d, K("contributors"))
    /\ Truthy(Get(before.d, K("author"))) /\ Truthy(Get(before.d, K("maintainer")))
    /\ Has(before.d, K("maintainer_email"))
    /\ Len(Get(rec.d, K("contributors")).l) = 2

\* license_id, license_title, license_url and the field each one fills
LicenseSources ==
    << <<K("license_id"), K("name")>>, <<K("license_title"), K("title")>>,
       <<K("license_url"), K("path")>> >>

LicenseSourceKeys == {LicenseSources[i][1] : i \in DOMAIN LicenseSources}

\* the object holding name, title, path, each when its source field is in d
SynthesizedLicense(d) ==
    LET present == {i \in DOMAIN LicenseSources : Has(d, LicenseSources[i][1])} IN
    Dict([k \in {LicenseSources[i][2] : i \in present} |->
             d[LicenseSources[CHOOSE i \in present : LicenseSources[i][2] = k][1]]])

\* an extras entry one of whose fields is the string 'licenses'
ExtrasSupplyLicenses(v) ==
    /\ Has(v.d, K("extras")) /\ IsList(v.d[K("extras")])
    /\ \E e \in Range(v.d[K("extras")].l) :
          IsDict(e) /\ \E k \in DOMAIN e.d : e.d[k] = W("licenses")

\* C14: when license_id, license_title or license_url is present, the output
\* of dataset has licenses whose first element holds name, title, path, each
\* exactly when its source field is present, and none of the three source
\* fields; when none is present, the record has no licenses and no extras
\* entry supplies licenses, the output has no licenses key.
C14_LicenseSynthesis ==
    (Returns("dataset") /\ IsDict(before)) =>
        /\ DOMAIN rec.d \cap LicenseSourceKeys = {}
        /\ IF DOMAIN before.d \cap LicenseSourceKeys # {}
           THEN /\ Has(rec.d, K("licenses")) /\ IsList(rec.d[K("licenses")])
                /\ rec.d[K("licenses")].l # <<>>
                /\ rec.d[K("licenses")].l[1] = SynthesizedLicense(before.d)
           ELSE (~Has(before.d, K("licenses")) /\ ~ExtrasSupplyLicenses(before))
                    => ~Has(rec.d, K("licenses"))

\* a dataset with license_id, license_title and license_url, now one license
\* with name, title and path
C14_Witness ==
    /\ Returns("dataset") /\ IsDict(before)
    /\ LicenseSourceKeys \subseteq DOMAIN before.d
    /\ DOMAIN Get(rec.d, K("licenses")).l[1].d = {K("name"), K("title"), K("path")}

\* a dataset record with a tags sequence of objects each containing name
HasTagObjects(v) ==
    /\ IsDict(v) /\ Has(v.d, K("tags")) /\ IsList(v.d[K("tags")])
    /\ \A t \in Range(v.d[K("tags")].l) : IsDict(t) /\ Has(t.d, K("name"))

\* C15: for a dataset with a tags sequence of objects each containing name,
\* the output of dataset has no tags key and its keywords is the sequence of
\* the names, of the same length and in the same order.
C15_TagsToKeywords ==
    (Returns("dataset") /\ HasTagObjects(before)) =>
        LET tags == before.d[K("tags")].l IN
        /\ ~Has(rec.d, K("tags"))
        /\ Has(rec.d, K("keywords"))
        /\ rec.d[K("keywords")] = List([i \in 1..Len(tags) |-> tags[i].d[K("name")]])

\* a dataset with two tags of different names, one with a further field
C15_Witness ==
    /\ Returns("dataset") /\ HasTagObjects(before)
    /\ LET tags == before.d[K("tags")].l IN
       /\ Len(tags) = 2
       /\ tags[1].d[K("name")] # tags[2].d[K("name")]
       /\ \E t \in Range(tags) : DOMAIN t.d # {K("name")}
    /\ Len(Get(rec.d, K("keywords")).l) = 2

\* a package whose licenses is a non-empty sequence of objects carrying name
HasNamedLicenses(v) ==
    /\ IsDict(v) /\ Has(v.d, K("licenses")) /\ IsList(v.d[K("licenses")])
    /\ v.d[K("licenses")].l # <<>>
    /\ \A l \in Range(v.d[K("licenses")].l) : IsDict(l) /\ Has(l.d, K("name"))

\* v has an extras entry holding the sequence x, as it is or as its JSON text
ExtrasHold(v, x) ==
    /\ Has(v.d, K("extras")) /\ IsList(v.d[K("extras")])
    /\ \E e \in Range(v.d[K("extras")].l) :
          IsDict(e) /\ \E k \in DOMAIN e.d : e.d[k] = x \/ IsJsonOf(e.d[k], x)

\* C16: for a package whose licenses is a non-empty sequence of objects
\* carrying name, package returns a record with license_id equal to the first
\* element's name, license_title equal to its title when it has one, no
\* licenses key and, when there is more than one license, an extras entry
\* holding the full licenses sequence.
C16_LicensesCollapse ==
    (op = "package" /\ HasNamedLicenses(before)) =>
        LET licenses == before.d[K("licenses")] IN
        /\ status = "ok"
        /\ Get(rec.d, K("license_id")) = licenses.l[1].d[K("name")]
        /\ Has(licenses.l[1].d, K("title"))
              => Get(rec.d, K("license_title")) = licenses.l[1].d[K("title")]
        /\ ~Has(rec.d, K("licenses"))
        /\ Len(licenses.l) > 1 => ExtrasHold(rec, licenses)

\* a package whose contributors is a non-empty sequence of objects
HasContributors(v) ==
    /\ IsDict(v) /\ Has(v.d, K("contributors")) /\ IsList(v.d[K("contributors")])
    /\ v.d[K("contributors")].l # <<>>
    /\ \A c \in Range(v.d[K("contributors")].l) : IsDict(c)

\* more than one contributor, or one with path, organisation or role
ContributorsOverflow(contributors) ==
    \/ Len(contributors.l) > 1
    \/ DOMAIN contributors.l[1].d \cap {K("path"), K("organisation"), K("role")} # {}

\* C17: for a package with a non-empty contributors, the output of package
\* has no contributors key; its extras has an entry carrying the full
\* contributors sequence when there is more than one contributor or the
\* single one has path, organisation or role, whatever extras was in the
\* input, and no such entry otherwise.
C17_ContributorsOverflow ==
    (Returns("package") /\ HasContributors(before)) =>
        LET contributors == before.d[K("contributors")] IN
        /\ ~Has(rec.d, K("contributors"))
        /\ IF ContributorsOverflow(contributors)
           THEN ExtrasHold(rec, contributors)
           ELSE ~ExtrasHold(rec, contributors)

\* the extras entries of key `licenses` whose value is the JSON text of a
\* sequence of objects
LicensesSequenceEntries(v) ==
    {i \in DOMAIN v.d[K("extras")].l :
        LET e == v.d[K("extras")].l[i]
            r == Loads(e.d[K("value")]) IN
        /\ e.d[K("key")] = W("licenses")
        /\ r.ok /\ IsList(r.v) /\ \A l \in Range(r.v.l) : IsDict(l)}

\* a dataset whose only extras entry of key `licenses` is such an entry
HasLicensesSequenceExtra(v) ==
    /\ HasExtrasPairs(v) /\ LicensesSequenceEntries(v) # {}
    /\ \A i \in DOMAIN v.d[K("extras")].l :
          (\E k \in DOMAIN v.d[K("extras")].l[i].d :
               v.d[K("extras")].l[i].d[k] = W("licenses"))
             => i \in LicensesSequenceEntries(v)

\* the {name?, title?, path?} copy of a listed license
Normalized(license) ==
    Dict([k \in DOMAIN license.d \cap {K("name"), K("title"), K("path")} |-> license.d[k]])

\* acc followed by the normalized copy of each listed license that is not
\* equal to an element already in the sequence
RECURSIVE MergedLicenses(_, _, _)
MergedLicenses(acc, listed, i) ==
    IF i > Len(listed) THEN acc
    ELSE IF Normalized(listed[i]) \in Range(acc)
         THEN MergedLicenses(acc, listed, i + 1)
    ELSE MergedLicenses(Append(acc, Normalized(listed[i])), listed, i + 1)

\* C18: for a dataset whose extras has an entry of key `licenses` whose value
\* is the JSON text of a sequence of license objects, dataset returns a
\* record whose licenses is the license built from license_id, license_title
\* and license_url followed, in order of first occurrence, by the normalized
\* copy of each listed license not already in the sequence, and no two
\* elements of licenses are equal.
C18_ExtrasLicensesMerged ==
    (op = "dataset" /\ HasLicensesSequenceExtra(before)) =>
        LET i      == CHOOSE j \in LicensesSequenceEntries(before) :
                         \A m \in LicensesSequenceEntries(before) : j <= m
            listed == Loads(before.d[K("extras")].l[i].d[K("value")]).v.l
            base   == IF DOMAIN before.d \cap LicenseSourceKeys # {}
                      THEN <<SynthesizedLicense(before.d)>> ELSE <<>> IN
        /\ status = "ok"
        /\ Get(rec.d, K("licenses")) = List(MergedLicenses(base, listed, 1))
        /\ \A a, b \in DOMAIN rec.d[K("licenses")].l :
              a # b => rec.d[K("licenses")].l[a] # rec.d[K("licenses")].l[b]

\* a package with a keywords sequence of strings, the empty one included
HasKeywords(v) ==
    /\ IsDict(v) /\ Has(v.d, K("keywords")) /\ IsList(v.d[K("keywords")])
    /\ \A w \in Range(v.d[K("keywords")].l) : IsStr(w)

\* C19: for a package in which keywords is present, the empty sequence
\* included, the output of package has no keywords key and its tags is the
\* sequence, of the same length and order, of {name: lowercase(slug(keyword))}.
C19_KeywordsToTags ==
    (Returns("package") /\ HasKeywords(before)) =>
        LET keywords == before.d[K("keywords")].l IN
        /\ ~Has(rec.d, K("keywords"))
        /\ Has(rec.d, K("tags"))
        /\ rec.d[K("tags")] =
              List([i \in 1..Len(keywords) |->
                       Dict(K("name") :> Str(Slugify(keywords[i].s)))])
====
